---- MODULE Spec2Model ----
(***************************************************************************)
(* A model of itho_parser.py: the sensor descriptor synthesizer            *)
(* (HAMQTTSensor) and the extraction / cataloging pipeline (IthoParser).   *)
(*                                                                         *)
(* Strings that the code only compares or interpolates are TLA+ strings.   *)
(* Table names, which the code matches against a regular expression,      *)
(* splits and converts to integers, are sequences of one-character         *)
(* strings.  Python's None is the string "None", which is also what an     *)
(* f-string renders it as.                                                 *)
(***************************************************************************)
EXTENDS Integers, Sequences, FiniteSets, TLC

VARIABLES
    DEVICE_CLASS_UNITS,          \* reference lookup: device class -> set of units
    DEVICE_CLASS_STATE_CLASSES,  \* reference lookup: device class -> state classes, in iteration order
    args,                        \* arguments of the last HAMQTTSensor(...) call
    sensor,                      \* the object that call built (NoSensor when it raised)
    sensorErr,                   \* the exception that call raised ("none" when it returned)
    file,                        \* the legacy export file: its tables and their rows
    tableDirMade,                \* parse() has created its table directory
    tables,                      \* IthoParser.tables
    store,                       \* the in-memory sqlite database: table name -> inserted rows
    versions,                    \* IthoParser.versions
    parameters,                  \* IthoParser.parameters
    datalabels,                  \* IthoParser.datalabels
    result,                      \* outcome of the last IthoParser method call
    hist                         \* what the calls so far have completed

sensorVars == <<args, sensor, sensorErr>>
lookupVars == <<DEVICE_CLASS_UNITS, DEVICE_CLASS_STATE_CLASSES>>
parserVars == <<file, tableDirMade, tables, store, versions, parameters, datalabels, result, hist>>
vars == <<lookupVars, sensorVars, parserVars>>

-----------------------------------------------------------------------------
(* Bounds *)

\* How many of DEVICE_CLASSES the reference lookup registers units for.
NumLookupClasses == 2
\* The highest firmware version a table of the file is named after.
MaxVersion == 2

-----------------------------------------------------------------------------
(* Module constants *)

None == "None"

DEVICE_ID == "itho_432432"
ITHO_STATUS_TOPIC == "itho_wtw/ithostatus"
AVAILABILITY_TOPIC == "itho_wtw/lwt"
PAYLOAD_AVAILABLE == "online"
PAYLOAD_NOT_AVAILABLE == "offline"

DEVICE_CLASSES ==
    << "apparent_power", "carbon_dioxide", "current", "duration", "energy",
       "humidity", "power", "pressure", "temperature", "volume_flow_rate" >>

Range(s) == { s[i] : i \in DOMAIN s }

\* Python truthiness of an optional string
Truthy(u) == u # None /\ u # ""

-----------------------------------------------------------------------------
(* HAMQTTSensor *)

\* A plausible slip: the superscript spelling is canonicalised to the
\* upper-case spelling instead of the lower-case one.
fix_unit_upper(unit_of_measurement) ==
    CASE unit_of_measurement = "M3/h" ->
            [unit_of_measurement |-> "m3/h", fixed_unit_of_measurement |-> "m³/h"]
      [] unit_of_measurement = "m3/h" ->
            [unit_of_measurement |-> "m3/h", fixed_unit_of_measurement |-> "m³/h"]
      [] unit_of_measurement = "m³/h" ->
            [unit_of_measurement |-> "M3/h", fixed_unit_of_measurement |-> "m³/h"]
      [] unit_of_measurement = "uur" ->
            [unit_of_measurement |-> "hour", fixed_unit_of_measurement |-> "h"]
      [] unit_of_measurement = "-" ->
            [unit_of_measurement |-> "-", fixed_unit_of_measurement |-> None]
      [] OTHER ->
            [unit_of_measurement |-> unit_of_measurement,
             fixed_unit_of_measurement |-> unit_of_measurement]

\* __fix_unit: the two fields it leaves on the object, from the unit it finds there.
fix_unit(unit_of_measurement) ==
    CASE unit_of_measurement = "M3/h" ->
            [unit_of_measurement |-> "m3/h", fixed_unit_of_measurement |-> "m³/h"]
      [] unit_of_measurement = "m3/h" ->
            [unit_of_measurement |-> "m3/h", fixed_unit_of_measurement |-> "m³/h"]
      [] unit_of_measurement = "m³/h" ->
            [unit_of_measurement |-> "m3/h", fixed_unit_of_measurement |-> "m³/h"]
      [] unit_of_measurement = "uur" ->
            [unit_of_measurement |-> "hour", fixed_unit_of_measurement |-> "h"]
      [] unit_of_measurement = "-" ->
            [unit_of_measurement |-> "-", fixed_unit_of_measurement |-> None]
      [] OTHER ->
            [unit_of_measurement |-> unit_of_measurement,
             fixed_unit_of_measurement |-> unit_of_measurement]

\* The list comprehension of __find_device_class: the considered classes, in
\* DEVICE_CLASSES order, whose registered unit set holds the unit.
Candidates(unit, units) ==
    SelectSeq(DEVICE_CLASSES, LAMBDA c : unit \in units[c])

\* A plausible slip: several candidates are resolved to the first one.
find_device_class_first(self, units) ==
    LET device_classes == Candidates(self.fixed_unit_of_measurement, units)
    IN  IF Len(device_classes) = 0
        THEN [err |-> "none", device_class |-> None]
        ELSE [err |-> "none", device_class |-> device_classes[1]]

\* A plausible slip: the lookup uses the canonical unit, not the display unit.
find_device_class_canonical(self, units) ==
    LET device_classes == Candidates(self.unit_of_measurement, units)
    IN  IF Len(device_classes) = 0
        THEN [err |-> "none", device_class |-> None]
        ELSE IF Len(device_classes) = 1
        THEN [err |-> "none", device_class |-> device_classes[1]]
        ELSE [err |-> "HAMQTTSensorError", device_class |-> None]

\* __find_device_class on an object whose units __fix_unit has set.
find_device_class(self, units) ==
    LET device_classes == Candidates(self.fixed_unit_of_measurement, units)
    IN  IF Len(device_classes) = 0
        THEN [err |-> "none", device_class |-> None]
        ELSE IF Len(device_classes) = 1
        THEN [err |-> "none", device_class |-> device_classes[1]]
        ELSE [err |-> "HAMQTTSensorError", device_class |-> None]

\* The f-string of value_template, as its parts; the lookup key is the
\* part between the quotes: value, " (", unit, ")".
TemplateKey(value, unit) == << value, " (", unit, ")" >>
value_template(value, unit) ==
    << "{{ value_json[\"" >> \o TemplateKey(value, unit) \o << "\"] }}" >>

NoSensor == [name |-> None]

\* HAMQTTSensor.__init__: the exception it raises and the object it builds.
HAMQTTSensor(name, unique_id, value, unit_of_measurement, units, state_classes) ==
    LET fixed == IF Truthy(unit_of_measurement)
                 THEN fix_unit(unit_of_measurement)
                 ELSE [unit_of_measurement |-> unit_of_measurement,
                       fixed_unit_of_measurement |-> None]
        found == IF Truthy(unit_of_measurement)
                 THEN find_device_class(fixed, units)
                 ELSE [err |-> "none", device_class |-> None]
        state_class ==
            IF found.device_class # None /\ Len(state_classes[found.device_class]) > 0
            THEN state_classes[found.device_class][1]
            ELSE None
    IN  IF found.err # "none"
        THEN [err |-> found.err, sensor |-> NoSensor]
        ELSE [err |-> "none",
              sensor |->
                [name |-> name,
                 unique_id |-> unique_id,
                 unit_of_measurement |-> fixed.unit_of_measurement,
                 fixed_unit_of_measurement |-> fixed.fixed_unit_of_measurement,
                 device_class |-> found.device_class,
                 state_class |-> state_class,
                 availability_topic |-> AVAILABILITY_TOPIC,
                 payload_available |-> PAYLOAD_AVAILABLE,
                 payload_not_available |-> PAYLOAD_NOT_AVAILABLE,
                 state_topic |-> ITHO_STATUS_TOPIC,
                 value_template |-> value_template(value, fixed.unit_of_measurement)]]

-----------------------------------------------------------------------------
(* Table names: sequences of one-character strings *)

Digits == << "0", "1", "2", "3", "4", "5", "6", "7", "8", "9" >>
DigitSet == Range(Digits)
IsDigit(c) == c \in DigitSet
DigitValue(c) == (CHOOSE i \in DOMAIN Digits : Digits[i] = c) - 1

UpperCase == << "A", "B", "C", "D", "E", "F", "G", "H", "I", "J", "K", "L", "M", "N", "O", "P", "Q", "R", "S", "T", "U", "V", "W", "X", "Y", "Z" >>
LowerCase == << "a", "b", "c", "d", "e", "f", "g", "h", "i", "j", "k", "l", "m", "n", "o", "p", "q", "r", "s", "t", "u", "v", "w", "x", "y", "z" >>
LowerOf == [c \in Range(UpperCase) |-> LowerCase[CHOOSE i \in DOMAIN UpperCase : UpperCase[i] = c]]
Lower(c) == IF c \in DOMAIN LowerOf THEN LowerOf[c] ELSE c
\* two names that differ in case at most
SameName(s, t) == Len(s) = Len(t) /\ \A i \in DOMAIN s : Lower(s[i]) = Lower(t[i])

\* str(n) of a non-negative integer
RECURSIVE Str(_)
Str(n) == IF n < 10 THEN << Digits[n + 1] >> ELSE Str(n \div 10) \o << Digits[(n % 10) + 1] >>

\* int(s) of a string of ASCII digits
RECURSIVE DigitsValue(_)
DigitsValue(s) ==
    IF s = << >> THEN 0
    ELSE 10 * DigitsValue(SubSeq(s, 1, Len(s) - 1)) + DigitValue(s[Len(s)])

\* f"Parameterlijst_V{version}", f"parameterlijst_V{version}", f"Datalabel_V{version}"
Parameterlijst_V(version) == << "P", "a", "r", "a", "m", "e", "t", "e", "r", "l", "i", "j", "s", "t", "_", "V" >> \o Str(version)
parameterlijst_V(version) == << "p", "a", "r", "a", "m", "e", "t", "e", "r", "l", "i", "j", "s", "t", "_", "V" >> \o Str(version)
Datalabel_V(version) == << "D", "a", "t", "a", "l", "a", "b", "e", "l", "_", "V" >> \o Str(version)

\* re.match(".+V[0-9]{1,2}$", table): at least one character, then V, then
\* one or two digits that end the name.
version_match(table) ==
    \E d \in 1..2 :
        /\ Len(table) >= d + 2
        /\ table[Len(table) - d] = "V"
        /\ \A i \in (Len(table) - d + 1)..Len(table) : IsDigit(table[i])

\* table.split("_V")[-1]: what follows the last "_V", the whole name when
\* there is none.
LastPiece(table) ==
    LET at == { i \in 1..(Len(table) - 1) : table[i] = "_" /\ table[i + 1] = "V" }
    IN  IF at = {} THEN table
        ELSE SubSeq(table, (CHOOSE i \in at : \A j \in at : j <= i) + 2, Len(table))

\* int(...) of that piece: its value, or ValueError.  A piece of a name that
\* version_match accepts is either the trailing digits or still holds a "V".
table_version(table) ==
    LET piece == LastPiece(table)
    IN  IF piece # << >> /\ \A i \in DOMAIN piece : IsDigit(piece[i])
        THEN [err |-> "none", version |-> DigitsValue(piece)]
        ELSE [err |-> "ValueError", version |-> 0]

-----------------------------------------------------------------------------
(* The legacy export file and the sqlite database *)

\* Tables a file holds besides the parameter and datalabel tables: a
\* temporary table, and possibly a table whose name ends in V<digit> without
\* "_V" or another table tagged with the highest version.
TempTable == << "~", "T", "M", "P", "C", "L", "P", "1" >>
PlainVersionTable == << "H", "a", "n", "d", "b", "o", "e", "k", "V", "1" >>
OtherVersionTable == << "T", "e", "l", "l", "e", "r", "s", "_", "V" >> \o Str(MaxVersion)
ExtraTables ==
    { << TempTable >>, << TempTable, PlainVersionTable >>, << TempTable, OtherVersionTable >> }

\* The rows of every table of a file, in the order the file stores them:
\* (Index, Tekst_GB, Tooltip_GB, Eenheid_GB).
RowPatterns ==
    { << << 2, "Airflow", "Actual airflow", "M3/h" >>,
         << 1, "Runtime", "Total runtime", "uur" >> >> }

\* The table names of a file: per version a parameter table (absent, or in
\* the primary or the alternate spelling) and a datalabel table (absent or
\* present), then the extra tables.
RECURSIVE VersionTables(_, _, _)
VersionTables(v, pk, dk) ==
    IF v > MaxVersion THEN << >>
    ELSE (CASE pk[v] = "primary" -> << Parameterlijst_V(v) >>
            [] pk[v] = "alternate" -> << parameterlijst_V(v) >>
            [] OTHER -> << >>)
         \o (IF dk[v] THEN << Datalabel_V(v) >> ELSE << >>)
         \o VersionTables(v + 1, pk, dk)

Files ==
    { [tables |-> VersionTables(1, pk, dk) \o extra, rows |-> rows] :
        pk \in [1..MaxVersion -> {"absent", "primary", "alternate"}],
        dk \in [1..MaxVersion -> BOOLEAN],
        extra \in ExtraTables,
        rows \in RowPatterns }

\* The rows mdb-export writes for a table, as the records sqlite3.Row gives
\* back; Naam carries the position in the file of the table the row was
\* exported from, so that the rows of different tables differ.
ExportedRows(f, table) ==
    [i \in DOMAIN f.rows |->
        [Index |-> f.rows[i][1],
         Naam |-> CHOOSE n \in DOMAIN f.tables : f.tables[n] = table,
         Tekst_GB |-> f.rows[i][2],
         Tooltip_GB |-> f.rows[i][3], Eenheid_GB |-> f.rows[i][4]]]

\* ORDER BY "Index" ASC: the k-th row of the answer is the row that k - 1
\* rows precede (rows of equal Index in insertion order).
OrderByIndex(rows) ==
    LET Before(j, i) ==
            \/ rows[j].Index < rows[i].Index
            \/ rows[j].Index = rows[i].Index /\ j < i
    IN  [k \in DOMAIN rows |->
            rows[CHOOSE i \in DOMAIN rows :
                    Cardinality({ j \in DOMAIN rows : Before(j, i) }) = k - 1]]

\* cursor.execute('SELECT * FROM <table> ORDER BY "Index" ASC'): sqlite
\* resolves the name without regard to case; an empty name is a syntax
\* error and an unknown one "no such table", both sqlite3.OperationalError.
select_ordered(db, table) ==
    LET hits == { n \in DOMAIN db : SameName(n, table) }
    IN  IF table = << >> \/ hits = {}
        THEN [err |-> "OperationalError", rows |-> << >>]
        ELSE [err |-> "none", rows |-> OrderByIndex(db[CHOOSE n \in hits : TRUE])]

EmptyStore == [n \in {} |-> << >>]

-----------------------------------------------------------------------------
(* IthoParser *)

IsTemporary(table) == Len(table) > 0 /\ table[1] = "~"

\* std_out.decode("ascii").strip().split("\n"): the names mdb-tables prints,
\* one empty name when it prints nothing.
ListedTables(f) == IF f.tables = << >> THEN << << >> >> ELSE f.tables

\* executescript(schema): every table of the file exists, without rows.
ApplySchema(db, f) ==
    [n \in DOMAIN db \cup Range(f.tables) |-> IF n \in DOMAIN db THEN db[n] ELSE << >>]

\* executescript(sql) for the first m tables of the list, in order: each of
\* them that exists gets the rows exported for it.
InsertTables(db, f, tbls, m) ==
    [n \in DOMAIN db |->
        IF \E j \in 1..m : tbls[j] = n THEN db[n] \o ExportedRows(f, n) ELSE db[n]]

\* parse(), given which tool invocation writes to its error stream: step is
\* "schema", "tables", "export" (of the k-th retained table) or "none".
parse_result(f, db, old_tables, step, k) ==
    LET kept == SelectSeq(ListedTables(f), LAMBDA t : ~IsTemporary(t))
    IN  CASE step = "schema" ->
                [err |-> "IthoParserError", message |-> "Failed to export schema",
                 tables |-> old_tables, store |-> db]
          [] step = "tables" ->
                [err |-> "IthoParserError", message |-> "Failed to get database tables",
                 tables |-> old_tables, store |-> db]
          [] step = "export" ->
                [err |-> "IthoParserError", message |-> "Failed to convert table",
                 tables |-> kept,
                 store |-> InsertTables(ApplySchema(db, f), f, kept, k - 1)]
          [] OTHER ->
                [err |-> "none", message |-> "",
                 tables |-> kept,
                 store |-> InsertTables(ApplySchema(db, f), f, kept, Len(kept))]

\* find_versions(): the exception it raises and the list it assigns.  The
\* loop raises at the first matching table whose piece is no integer, and
\* otherwise leaves in max_version the largest version, 0 without tables.
find_versions_result(tbls) ==
    LET version_tables == SelectSeq(tbls, version_match)
        found == [i \in DOMAIN version_tables |-> table_version(version_tables[i])]
        max_version ==
            IF version_tables = << >> THEN 0
            ELSE LET top == CHOOSE i \in DOMAIN found :
                                \A j \in DOMAIN found : found[j].version <= found[i].version
                 IN  found[top].version
    IN  IF \E i \in DOMAIN found : found[i].err # "none"
        THEN [err |-> "ValueError", versions |-> << >>]
        ELSE [err |-> "none", versions |-> [i \in 1..max_version |-> i]]

\* A plausible slip: a version without a parameter table starts from no
\* table instead of keeping the previous one.
resolve_parameter_table_reset(version, tbls, current_table) ==
    IF Parameterlijst_V(version) \in Range(tbls) THEN Parameterlijst_V(version)
    ELSE IF parameterlijst_V(version) \in Range(tbls) THEN Parameterlijst_V(version)
    ELSE << >>

\* The if/elif of find_parameters: current_table after it.
resolve_parameter_table(version, tbls, current_table) ==
    IF Parameterlijst_V(version) \in Range(tbls) THEN Parameterlijst_V(version)
    ELSE IF parameterlijst_V(version) \in Range(tbls) THEN Parameterlijst_V(version)
    ELSE current_table

\* The if of find_datalabels: current_table after it.
resolve_datalabel_table(version, tbls, current_table) ==
    IF Datalabel_V(version) \in Range(tbls) THEN Datalabel_V(version)
    ELSE current_table

\* The rest of a loading loop, the same in find_parameters and
\* find_datalabels: query[i] is the answer to the query of the i-th
\* iteration.  The loop stops at the first query that fails; the iterations
\* before it have assigned their rows to their versions.
LoadResult(dict, vs, query) ==
    LET failed == { i \in DOMAIN vs : query[i].err # "none" }
        stop == IF failed = {} THEN Len(vs) + 1
                ELSE CHOOSE i \in failed : \A j \in failed : i <= j
        done == 1..(stop - 1)
    IN  [err |-> IF failed = {} THEN "none" ELSE query[stop].err,
         dict |-> [v \in DOMAIN dict \cup { vs[i] : i \in done } |->
                    IF \E i \in done : vs[i] = v
                    THEN query[CHOOSE i \in done : vs[i] = v].rows
                    ELSE dict[v]]]

\* current_table of find_parameters after the if/elif of the i-th
\* iteration; it is "" before the loop.
RECURSIVE parameter_table(_, _, _)
parameter_table(i, vs, tbls) ==
    IF i = 0 THEN << >>
    ELSE resolve_parameter_table(vs[i], tbls, parameter_table(i - 1, vs, tbls))

\* current_table of find_datalabels after the if of the i-th iteration.
RECURSIVE datalabel_table(_, _, _)
datalabel_table(i, vs, tbls) ==
    IF i = 0 THEN << >>
    ELSE resolve_datalabel_table(vs[i], tbls, datalabel_table(i - 1, vs, tbls))

\* find_parameters(): the exception it raises and the dict it leaves.
find_parameters_result(dict, vs, tbls, db) ==
    LoadResult(dict, vs,
               [i \in DOMAIN vs |-> select_ordered(db, parameter_table(i, vs, tbls))])

\* find_datalabels(): likewise.
find_datalabels_result(dict, vs, tbls, db) ==
    LoadResult(dict, vs,
               [i \in DOMAIN vs |-> select_ordered(db, datalabel_table(i, vs, tbls))])

\* A plausible slip: the version is looked up one off.
version_in_versions_off_by_one(version, vs) == (version - 1) \in Range(vs)

\* version in self.versions
version_in_versions(version, vs) == version \in Range(vs)

\* get_ha_sensors(version): the exception it raises and the list it returns.
get_ha_sensors_result(version, vs, dls, units, state_classes) ==
    IF ~version_in_versions(version, vs)
    THEN [err |-> "IthoParserError",
          message |-> << "Firmware version: ", Str(version), " not found" >>,
          sensors |-> << >>]
    ELSE IF version \notin DOMAIN dls
    THEN [err |-> "KeyError", message |-> << >>, sensors |-> << >>]
    ELSE LET built == [i \in DOMAIN dls[version] |->
                        HAMQTTSensor(dls[version][i].Tekst_GB,
                                     << DEVICE_ID, "_", dls[version][i].Tekst_GB >>,
                                     dls[version][i].Tooltip_GB,
                                     dls[version][i].Eenheid_GB,
                                     units, state_classes)]
         IN  IF \E i \in DOMAIN built : built[i].err # "none"
             THEN [err |-> "HAMQTTSensorError", message |-> << >>, sensors |-> << >>]
             ELSE [err |-> "none", message |-> << >>,
                   sensors |-> [i \in DOMAIN built |-> built[i].sensor]]

-----------------------------------------------------------------------------
(* The reference lookup of the home-automation hub *)

AllClasses == Range(DEVICE_CLASSES)

\* The units the hub registers for the considered device classes, as far as
\* the units of the modelled files go.
HomeAssistantUnits ==
    [c \in AllClasses |->
        CASE c = "volume_flow_rate" -> {"m³/h"}
          [] c = "duration" -> {"h", "min", "s"}
          [] c = "humidity" -> {"%"}
          [] OTHER -> {}]
\* The state classes the hub registers for them.  The code takes
\* list(state_classes)[0] of a Python set, so which member comes first is
\* the runtime's choice for the process: the lookup holds the set in its
\* iteration order, and every order of a set is a possible lookup.
Orders(S) ==
    { o \in [1..Cardinality(S) -> S] : \A x \in S : \E i \in DOMAIN o : o[i] = x }
HomeAssistantStateClasses ==
    { [c \in AllClasses |-> IF c = "duration" THEN o ELSE << "measurement" >>] :
      o \in Orders({"measurement", "total_increasing"}) }

\* The lookups a descriptor is synthesized against: the first
\* NumLookupClasses classes of LookupOrder register any units of
\* RegisteredUnits, the other classes none.
LookupOrder ==
    << "volume_flow_rate", "duration", "humidity", "power", "temperature",
       "pressure", "energy", "current", "carbon_dioxide", "apparent_power" >>
RegisteredUnits == {"m3/h", "m³/h", "h", "%"}
UnitLookups ==
    { [c \in AllClasses |->
         IF \E i \in 1..NumLookupClasses : LookupOrder[i] = c
         THEN f[CHOOSE i \in 1..NumLookupClasses : LookupOrder[i] = c]
         ELSE {}] :
      f \in [1..NumLookupClasses -> SUBSET RegisteredUnits] }
StateClassSets == { {}, {"measurement"}, {"total_increasing", "total"} }
StateClassLookups ==
    { [c \in AllClasses |-> o] : o \in UNION { Orders(S) : S \in StateClassSets } }

\* The datalabels a descriptor is synthesized from: (Tekst_GB, Tooltip_GB)
\* and Eenheid_GB.
Labels == { << "Airflow", "Actual airflow" >>, << "Runtime", "Total runtime" >> }
Units == {"M3/h", "m3/h", "m³/h", "uur", "hour", "h", "-", "%", "", None}

-----------------------------------------------------------------------------
(* States and actions *)

NoArgs == [name |-> None, value |-> None, unit_of_measurement |-> None]
NoFile == [tables |-> << >>, rows |-> << >>]

\* IthoParser.__init__ on file f
ParserInit(f) ==
    /\ file = f
    /\ tableDirMade = FALSE
    /\ tables = << >>
    /\ store = EmptyStore
    /\ versions = << >>
    /\ parameters = EmptyStore
    /\ datalabels = EmptyStore
    /\ result = [op |-> "__init__", err |-> "none"]
    /\ hist = [parse |-> "none", discovered |-> FALSE]

NoSensorYet ==
    /\ args = NoArgs
    /\ sensor = NoSensor
    /\ sensorErr = "none"

\* HAMQTTSensor(name, ..., value, unit_of_measurement)
NewSensor ==
    \E label \in Labels, unit \in Units :
        LET r == HAMQTTSensor(label[1], << DEVICE_ID, "_", label[1] >>, label[2], unit,
                              DEVICE_CLASS_UNITS, DEVICE_CLASS_STATE_CLASSES)
        IN  /\ args' = [name |-> label[1], value |-> label[2], unit_of_measurement |-> unit]
            /\ sensor' = r.sensor
            /\ sensorErr' = r.err
            /\ UNCHANGED <<lookupVars, parserVars>>

\* parse() when the table directory is still to be made; the tools write to
\* their error streams as the environment decides.
parse ==
    /\ ~tableDirMade
    /\ \E step \in {"schema", "tables", "export", "none"} :
       \E k \in IF step = "export"
                THEN 1..Len(SelectSeq(ListedTables(file), LAMBDA t : ~IsTemporary(t)))
                ELSE {0} :
          LET r == parse_result(file, store, tables, step, k)
          IN  /\ tableDirMade' = TRUE
              /\ tables' = r.tables
              /\ store' = r.store
              /\ result' = [op |-> "parse", err |-> r.err, message |-> r.message]
              /\ hist' = [hist EXCEPT !.parse = IF r.err = "none" THEN "completed"
                                                ELSE "tool_error"]
              /\ UNCHANGED <<lookupVars, sensorVars, file, versions, parameters, datalabels>>

\* parse() once more: os.makedirs finds the table directory and raises.
parse_again ==
    /\ tableDirMade
    /\ result' = [op |-> "parse", err |-> "FileExistsError", message |-> ""]
    /\ UNCHANGED <<lookupVars, sensorVars, file, tableDirMade, tables, store, versions,
                   parameters, datalabels, hist>>

find_versions ==
    LET r == find_versions_result(tables)
    IN  /\ versions' = IF r.err = "none" THEN r.versions ELSE versions
        /\ result' = [op |-> "find_versions", err |-> r.err]
        /\ hist' = [hist EXCEPT !.discovered = @ \/ (r.err = "none" /\ hist.parse = "completed")]
        /\ UNCHANGED <<lookupVars, sensorVars, file, tableDirMade, tables, store,
                       parameters, datalabels>>

find_parameters ==
    LET r == find_parameters_result(parameters, versions, tables, store)
    IN  /\ parameters' = r.dict
        /\ result' = [op |-> "find_parameters", err |-> r.err]
        /\ UNCHANGED <<lookupVars, sensorVars, file, tableDirMade, tables, store,
                       versions, datalabels, hist>>

find_datalabels ==
    LET r == find_datalabels_result(datalabels, versions, tables, store)
    IN  /\ datalabels' = r.dict
        /\ result' = [op |-> "find_datalabels", err |-> r.err]
        /\ UNCHANGED <<lookupVars, sensorVars, file, tableDirMade, tables, store,
                       versions, parameters, hist>>

get_ha_sensors ==
    \E version \in 1..(MaxVersion + 1) :
        LET r == get_ha_sensors_result(version, versions, datalabels,
                                       DEVICE_CLASS_UNITS, DEVICE_CLASS_STATE_CLASSES)
        IN  /\ result' = [op |-> "get_ha_sensors", err |-> r.err, version |-> version,
                          message |-> r.message, sensors |-> r.sensors]
            /\ UNCHANGED <<lookupVars, sensorVars, file, tableDirMade, tables, store,
                           versions, parameters, datalabels, hist>>

\* The pipeline: one parser on one file, its methods called in any order.
Init ==
    /\ DEVICE_CLASS_UNITS = HomeAssistantUnits
    /\ DEVICE_CLASS_STATE_CLASSES \in HomeAssistantStateClasses
    /\ NoSensorYet
    /\ \E f \in Files : ParserInit(f)

Next ==
    \/ parse
    \/ parse_again
    \/ find_versions
    \/ find_parameters
    \/ find_datalabels
    \/ get_ha_sensors

Spec == Init /\ [][Next]_vars

\* The synthesizer: descriptors built against any reference lookup.
SensorInit ==
    /\ DEVICE_CLASS_UNITS \in UnitLookups
    /\ DEVICE_CLASS_STATE_CLASSES \in StateClassLookups
    /\ NoSensorYet
    /\ ParserInit(NoFile)

SensorNext == NewSensor

SensorSpec == SensorInit /\ [][SensorNext]_vars

-----------------------------------------------------------------------------
(* The units of section 4.5 of the specification, stated apart from the    *)
(* code: the canonical unit and the display unit of a raw unit.            *)

CanonicalUnit(u) ==
    CASE u \in {"M3/h", "m3/h", "m³/h"} -> "m3/h"
      [] u = "uur" -> "hour"
      [] OTHER -> u

DisplayUnit(u) ==
    CASE u \in {"M3/h", "m3/h", "m³/h"} -> "m³/h"
      [] u = "uur" -> "h"
      [] u = "-" -> None
      [] OTHER -> u

\* The considered device classes that register a unit
Registering(u) == { c \in AllClasses : u \in DEVICE_CLASS_UNITS[c] }

Called == args # NoArgs
Built == Called /\ sensorErr = "none"

-----------------------------------------------------------------------------
(* Claims about the synthesizer, checked under SensorSpec *)

\* C1: the lookup key of the value template of every descriptor is
\* "<label> (<raw unit>)", built from the unit string as it was passed in,
\* never from the normalized unit.
C1_KeyUsesRawUnit ==
    Built => sensor.value_template
               = << "{{ value_json[\"", args.value, " (", args.unit_of_measurement, ")",
                    "\"] }}" >>

\* C4 as claimed: whenever the unit passed in is registered under two or
\* more considered device classes, the synthesizer raises HAMQTTSensorError
\* and builds no descriptor.
C4_RaisesWhenUnitAmbiguous ==
    (Called /\ Cardinality(Registering(args.unit_of_measurement)) >= 2)
        => (sensorErr = "HAMQTTSensorError" /\ sensor = NoSensor)

\* C4 as amended: whenever the display unit derived from a non-empty unit is
\* registered under two or more considered device classes, the synthesizer
\* raises HAMQTTSensorError and builds no descriptor; no descriptor is built
\* with a device class picked among several candidates.
C4_RaisesWhenDisplayUnitAmbiguous ==
    /\ (Called /\ Truthy(args.unit_of_measurement)
          /\ Cardinality(Registering(DisplayUnit(args.unit_of_measurement))) >= 2)
        => (sensorErr = "HAMQTTSensorError" /\ sensor = NoSensor)
    /\ (Called /\ sensorErr = "HAMQTTSensorError")
        => (sensor = NoSensor
            /\ Cardinality(Registering(DisplayUnit(args.unit_of_measurement))) >= 2)

\* A unit whose display unit differs from it is ambiguous and is refused.
C4_Witness ==
    /\ Called
    /\ args.unit_of_measurement = "M3/h"
    /\ Cardinality(Registering("m³/h")) >= 2
    /\ Registering("M3/h") = {}
    /\ sensorErr = "HAMQTTSensorError"
    /\ sensor = NoSensor

\* C7 as claimed: normalizing the canonical unit of a descriptor again gives
\* the same canonical unit and the same display unit.
C7_NormalizationIdempotent ==
    (Built /\ Truthy(args.unit_of_measurement))
        => fix_unit(sensor.unit_of_measurement)
             = [unit_of_measurement |-> sensor.unit_of_measurement,
                fixed_unit_of_measurement |-> sensor.fixed_unit_of_measurement]

\* C7 as amended: normalizing the canonical unit again gives the same
\* canonical unit, and the same display unit unless the raw unit is "uur",
\* whose canonical unit "hour" is displayed as "hour" and not as "h".
C7_CanonicalIdempotent ==
    (Built /\ Truthy(args.unit_of_measurement))
        => LET again == fix_unit(sensor.unit_of_measurement)
           IN  /\ sensor.unit_of_measurement = CanonicalUnit(args.unit_of_measurement)
               /\ again.unit_of_measurement = sensor.unit_of_measurement
               /\ IF args.unit_of_measurement = "uur"
                  THEN sensor.fixed_unit_of_measurement = "h"
                       /\ again.fixed_unit_of_measurement = "hour"
                  ELSE again.fixed_unit_of_measurement = sensor.fixed_unit_of_measurement

\* The raw unit "uur" has been normalized to "hour" and is displayed as "h".
C7_Witness ==
    /\ Built
    /\ args.unit_of_measurement = "uur"
    /\ sensor.unit_of_measurement = "hour"
    /\ sensor.fixed_unit_of_measurement = "h"

\* C9 as claimed: the descriptor has no device class when no class registers
\* the canonical unit, and class C when exactly C registers the canonical unit.
C9_ClassFromCanonicalUnit ==
    Called =>
        LET classes == Registering(CanonicalUnit(args.unit_of_measurement))
        IN  /\ classes = {} => (Built /\ sensor.device_class = None)
            /\ \A c \in AllClasses : classes = {c} => (Built /\ sensor.device_class = c)

\* C9 as amended: the lookup uses the display unit; a descriptor of a
\* non-empty unit has no device class when no class registers the display
\* unit and class C when exactly C registers it, and a descriptor of an
\* empty or missing unit has no device class.
C9_ClassFromDisplayUnit ==
    Called =>
        LET classes == Registering(DisplayUnit(args.unit_of_measurement))
        IN  IF Truthy(args.unit_of_measurement)
            THEN /\ classes = {} => (Built /\ sensor.device_class = None)
                 /\ \A c \in AllClasses : classes = {c} => (Built /\ sensor.device_class = c)
            ELSE Built /\ sensor.device_class = None

\* The display unit "h" of "uur" is registered by one class and the
\* canonical unit "hour" by none: the descriptor gets that class.
C9_Witness ==
    /\ Built
    /\ args.unit_of_measurement = "uur"
    /\ Registering("hour") = {}
    /\ Registering("h") = {"duration"}
    /\ sensor.device_class = "duration"

-----------------------------------------------------------------------------
(* Claims about the pipeline, checked under Spec *)

\* The largest version a table name is tagged with, 0 without such a table
TaggedVersions ==
    { table_version(tables[i]).version : i \in { j \in DOMAIN tables : version_match(tables[j]) } }
MaxTagged == IF TaggedVersions = {} THEN 0
             ELSE CHOOSE m \in TaggedVersions : \A n \in TaggedVersions : n <= m

\* C2: find_versions completes on every table list and leaves in versions
\* the ascending sequence 1..max, max the largest version suffix of the
\* tables whose names end in V and one or two digits.
C2_VersionsAreOneToMax ==
    result.op = "find_versions"
        => (result.err = "none" /\ versions = [i \in 1..MaxTagged |-> i])

\* C3: get_ha_sensors of a version that is not among the discovered
\* versions raises IthoParserError with the version in its message and
\* returns no descriptors, whatever has been called before.
C3_UnknownVersionRaises ==
    (result.op = "get_ha_sensors" /\ \A i \in DOMAIN versions : versions[i] # result.version)
        => /\ result.err = "IthoParserError"
           /\ result.message = << "Firmware version: ", Str(result.version), " not found" >>
           /\ result.sensors = << >>

\* A version beyond the discovered ones is asked for after discovery.
C3_Witness ==
    /\ result.op = "get_ha_sensors"
    /\ versions # << >>
    /\ DOMAIN datalabels # {}
    /\ result.version = Len(versions) + 1
    /\ result.err = "IthoParserError"
    /\ result.sensors = << >>

\* C5: after a tool wrote to its error stream during parse, the table list
\* and the store hold nothing, and nothing is discovered or loaded later.
C5_NoPartialCatalog ==
    hist.parse = "tool_error"
        => /\ tables = << >>
           /\ \A n \in DOMAIN store : store[n] = << >>
           /\ versions = << >>
           /\ DOMAIN parameters = {}
           /\ DOMAIN datalabels = {}

\* A version of the enumeration without parameter and datalabel tables
HasParameterTable(v) ==
    \E i \in DOMAIN tables : tables[i] \in {Parameterlijst_V(v), parameterlijst_V(v)}
HasDatalabelTable(v) == \E i \in DOMAIN tables : tables[i] = Datalabel_V(v)
IsGap(v) == ~HasParameterTable(v) /\ ~HasDatalabelTable(v)

\* C6: the parameter sequence and the datalabel sequence loaded for a gap
\* version are empty.
C6_GapVersionsLoadEmpty ==
    \A i \in DOMAIN versions :
        IsGap(versions[i]) =>
            /\ versions[i] \in DOMAIN parameters => parameters[versions[i]] = << >>
            /\ versions[i] \in DOMAIN datalabels => datalabels[versions[i]] = << >>


\* The version whose parameter table the loop has resolved last when it
\* loads version v: the highest version up to v with a parameter table in
\* either spelling, 0 when there is none.
ParameterSource(v) ==
    LET S == { w \in 1..v : HasParameterTable(w) }
    IN  IF S = {} THEN 0 ELSE CHOOSE w \in S : \A x \in S : x <= w
DatalabelSource(v) ==
    LET S == { w \in 1..v : HasDatalabelTable(w) }
    IN  IF S = {} THEN 0 ELSE CHOOSE w \in S : \A x \in S : x <= w

\* The rows the store holds for a table of the list
StoredRows(table) == { store[table][i] : i \in DOMAIN store[table] }
ParameterTableOf(w) ==
    CHOOSE t \in Range(tables) : t \in {Parameterlijst_V(w), parameterlijst_V(w)}

Ascending(rows) == \A i, j \in DOMAIN rows : i < j => rows[i].Index < rows[j].Index
RowSet(rows) == { rows[i] : i \in DOMAIN rows }

\* C8: find_parameters loads each version from its parameter table in the
\* primary or the alternate spelling, and a version with neither from the
\* table resolved for the version before it; find_datalabels does the same
\* with the one spelling of the datalabel table.  A loop whose first version
\* has no table has nothing to reuse and fails in its query.
C8_CarryOver ==
    /\ result.op = "find_parameters" =>
          IF versions # << >> /\ ParameterSource(1) = 0
          THEN result.err = "OperationalError"
          ELSE /\ result.err = "none"
               /\ \A v \in RowSet(versions) :
                     /\ v \in DOMAIN parameters
                     /\ RowSet(parameters[v]) = StoredRows(ParameterTableOf(ParameterSource(v)))
                     /\ Ascending(parameters[v])
                     /\ parameters[v] = parameters[ParameterSource(v)]
    /\ result.op = "find_datalabels" =>
          IF versions # << >> /\ DatalabelSource(1) = 0
          THEN result.err = "OperationalError"
          ELSE /\ result.err = "none"
               /\ \A v \in RowSet(versions) :
                     /\ v \in DOMAIN datalabels
                     /\ RowSet(datalabels[v]) = StoredRows(Datalabel_V(DatalabelSource(v)))
                     /\ Ascending(datalabels[v])
                     /\ datalabels[v] = datalabels[DatalabelSource(v)]

\* A version with neither table has been loaded with the rows of the
\* version before it, whose parameter table is in the alternate spelling.
C8_Witness ==
    \E v \in RowSet(versions) :
        /\ v > 1
        /\ IsGap(v)
        /\ v \in DOMAIN parameters
        /\ v \in DOMAIN datalabels
        /\ parameterlijst_V(v - 1) \in Range(tables)
        /\ parameters[v] # << >>
        /\ parameters[v] = parameters[v - 1]
        /\ datalabels[v] # << >>
        /\ datalabels[v] = datalabels[v - 1]

\* C10: no catalog is loaded unless version discovery has completed after a
\* completed extraction; get_ha_sensors returns descriptors only for a
\* version whose datalabels are loaded; once find_datalabels has completed,
\* datalabels has an entry for exactly the discovered versions.
C10_PipelineOrder ==
    /\ (DOMAIN parameters # {} \/ DOMAIN datalabels # {}) => hist.discovered
    /\ (result.op = "get_ha_sensors" /\ result.err = "none")
          => result.version \in DOMAIN datalabels
    /\ (result.op = "find_datalabels" /\ result.err = "none")
          => DOMAIN datalabels = RowSet(versions)

\* The second and third parts of C10 on their own
C10_DescriptorsAfterLoading ==
    /\ (result.op = "get_ha_sensors" /\ result.err = "none")
          => result.version \in DOMAIN datalabels
    /\ (result.op = "find_datalabels" /\ result.err = "none")
          => DOMAIN datalabels = RowSet(versions)

====
